---- MODULE Spec2Model ----
(***************************************************************************)
(* Model of src/src/App.tsx: a choropleth map whose regions are toggled    *)
(* into a selection by clicks, coloured by a fetched metric, and pushed    *)
(* as a runtime filter to an embedded liveboard.                           *)
(*                                                                         *)
(* React state (useState) is the model's state.  One action stands for one *)
(* event-loop task: a click handler, a promise callback, or the embed      *)
(* component assigning its reference.  State updates made in one task are  *)
(* committed together (React batches them), so each action is atomic.      *)
(***************************************************************************)
EXTENDS Integers, Sequences, FiniteSets, TLC

(* ------------------------------ bounds --------------------------------- *)

\* Regions of the boundary dataset are numbered 1..NumRegions.
NumRegions == 2

\* Sales values carried by metric rows are 0..MaxSale.
MaxSale == 2

\* A metric response carries at most MaxRows rows.
MaxRows == 2

\* At most MaxSent commands are handed to the embed.
MaxSent == 2

\* interpolateColor is exercised on integers in -ColorRange..ColorRange.
ColorRange == 3

\* The .then callback on its own is given at most StoreMaxRows rows.
StoreMaxRows == 3

Regions == 1..NumRegions

Sales == 0..MaxSale

MetricRows == UNION {[1..n -> Regions \X Sales] : n \in 0..MaxRows}

ColorInputs == (0 - ColorRange)..ColorRange

StoreRows == UNION {[1..n -> Regions \X Sales] : n \in 0..StoreMaxRows}

(* --------------------------- JavaScript numbers ------------------------ *)
(* A number is a rational n/d (d > 0), an infinity or NaN.  Integers in    *)
(* the ranges used here and their quotients by differences below 127 are   *)
(* represented exactly enough by doubles that Math.floor agrees with the   *)
(* exact floor.                                                            *)

Num(i) == [k |-> "num", n |-> i, d |-> 1]

PosInf == [k |-> "inf", n |-> 1, d |-> 1]

NegInf == [k |-> "inf", n |-> 0 - 1, d |-> 1]

NaN == [k |-> "nan", n |-> 0, d |-> 1]

Neg(a) == IF a.k = "nan" THEN NaN ELSE [k |-> a.k, n |-> 0 - a.n, d |-> a.d]

\* a + b
Add(a, b) ==
  IF a.k = "nan" \/ b.k = "nan" THEN NaN
  ELSE IF a.k = "inf" /\ b.k = "inf" THEN (IF a.n = b.n THEN a ELSE NaN)
  ELSE IF a.k = "inf" THEN a
  ELSE IF b.k = "inf" THEN b
  ELSE [k |-> "num", n |-> a.n * b.d + b.n * a.d, d |-> a.d * b.d]

\* a - b
Sub(a, b) == Add(a, Neg(b))

Sign(i) == IF i > 0 THEN 1 ELSE IF i < 0 THEN 0 - 1 ELSE 0

\* a * b
Mul(a, b) ==
  IF a.k = "nan" \/ b.k = "nan" THEN NaN
  ELSE IF a.k = "inf" \/ b.k = "inf"
       THEN (IF a.n = 0 \/ b.n = 0 THEN NaN
             ELSE IF Sign(a.n) = Sign(b.n) THEN PosInf ELSE NegInf)
  ELSE [k |-> "num", n |-> a.n * b.n, d |-> a.d * b.d]

\* a / b ; a zero divisor here is always +0, the difference of equal numbers
Div(a, b) ==
  IF a.k = "nan" \/ b.k = "nan" THEN NaN
  ELSE IF a.k = "inf" /\ b.k = "inf" THEN NaN
  ELSE IF a.k = "inf"
       THEN (IF b.n >= 0 THEN a ELSE Neg(a))
  ELSE IF b.k = "inf" THEN Num(0)
  ELSE IF b.n = 0
       THEN (IF a.n = 0 THEN NaN ELSE IF a.n > 0 THEN PosInf ELSE NegInf)
  ELSE IF b.n > 0 THEN [k |-> "num", n |-> a.n * b.d, d |-> a.d * b.n]
  ELSE [k |-> "num", n |-> (0 - a.n) * b.d, d |-> a.d * (0 - b.n)]

\* floor of an integer quotient with positive divisor
FloorDiv(n, d) == IF n >= 0 THEN n \div d ELSE 0 - (((0 - n) + d - 1) \div d)

\* Math.floor
MathFloor(a) == IF a.k = "num" THEN Num(FloorDiv(a.n, a.d)) ELSE a

\* String(x) as a template literal renders a number
NumberToString(a) ==
  IF a.k = "nan" THEN "NaN"
  ELSE IF a.k = "inf" THEN (IF a.n > 0 THEN "Infinity" ELSE "-Infinity")
  ELSE IF a.n < 0 THEN "-" \o ToString((0 - a.n) \div a.d)
  ELSE ToString(a.n \div a.d)

\* Math.min(...values) and Math.max(...values) of a sequence of integers
MathMin(values) ==
  IF Len(values) = 0 THEN PosInf
  ELSE Num(CHOOSE m \in {values[i] : i \in 1..Len(values)} :
             \A j \in 1..Len(values) : m <= values[j])

MathMax(values) ==
  IF Len(values) = 0 THEN NegInf
  ELSE Num(CHOOSE m \in {values[i] : i \in 1..Len(values)} :
             \A j \in 1..Len(values) : m >= values[j])

(* ------------------------------ ColorScale ----------------------------- *)

\* the three channels computed by interpolateColor, before formatting
interpolateChannels(value, min, max) ==
  LET normalizedValue == Div(Sub(value, min), Sub(max, min))
      red == MathFloor(Add(Num(128), Mul(Num(255 - 128), normalizedValue)))
      green == MathFloor(Add(Num(64),
                 Mul(Num(255 - 64), Sub(Num(1), normalizedValue))))
      blue == MathFloor(Add(Num(26),
                 Mul(Num(255 - 26), Sub(Num(1), normalizedValue))))
  IN [red |-> red, green |-> green, blue |-> blue]

interpolateColor(value, min, max) ==
  LET c == interpolateChannels(value, min, max)
  IN "rgb(" \o NumberToString(c.red) \o "," \o NumberToString(c.green)
       \o "," \o NumberToString(c.blue) \o ")"

(* ------------------------------- state --------------------------------- *)

VARIABLES
  selectedStates,  \* useState<string[]>: the selection, in click order
  mapData,         \* useState<GeoJsonObject | null>: "null" or "loaded"
  stateSales,      \* useState<StateSales>: function from a set of regions
  minSales,        \* useState<number>
  maxSales,        \* useState<number>
  zIndex,          \* ref.current.style.zIndex of the liveboard panel
  embedRef,        \* embedRef.current: "null" until the embed assigns it
  sentCount,       \* number of commands trigger() has handed to the embed
  lastSent,        \* the most recent of those commands, if any
  boundaryFetch,   \* the GeoJSON fetch: "pending", "done" or "failed"
  metricFetch,     \* searchData: "idle", "pending", "done" or "failed"
  fault,           \* TRUE iff the last handler ended with an uncaught throw
  lastOp,          \* name of the last task that ran
  colorIn,         \* arguments handed to interpolateColor on its own
  colorOut,        \* results of those calls
  loadIn           \* rows handed to the .then callback on its own

vars == <<selectedStates, mapData, stateSales, minSales, maxSales, zIndex,
          embedRef, sentCount, lastSent, boundaryFetch, metricFetch, fault,
          lastOp, colorIn, colorOut, loadIn>>

appVars == <<selectedStates, mapData, stateSales, minSales, maxSales, zIndex,
             embedRef, sentCount, lastSent, boundaryFetch, metricFetch, fault,
             lastOp>>

\* arguments and results of the functions that are also run on their own
callVars == <<colorIn, colorOut, loadIn>>

EmptySales == [r \in {} |-> 0]

\* the mounted state if the metric effect lacked its test of mapData: the
\* metric query is issued on mount
AppInitNoGate ==
  /\ selectedStates = <<>>
  /\ mapData = "null"
  /\ stateSales = EmptySales
  /\ minSales = Num(0)
  /\ maxSales = Num(0)
  /\ zIndex = "0"
  /\ embedRef = "null"
  /\ sentCount = 0
  /\ lastSent = <<>>
  /\ boundaryFetch = "pending"
  /\ metricFetch = "pending"
  /\ fault = FALSE
  /\ lastOp = "mount"

\* The state once App is mounted: first render done, the mount effect has
\* issued the boundary fetch and set the panel's z-index to '0'.
AppInit ==
  /\ selectedStates = <<>>
  /\ mapData = "null"
  /\ stateSales = EmptySales
  /\ minSales = Num(0)
  /\ maxSales = Num(0)
  /\ zIndex = "0"
  /\ embedRef = "null"
  /\ sentCount = 0
  /\ lastSent = <<>>
  /\ boundaryFetch = "pending"
  /\ metricFetch = "idle"
  /\ fault = FALSE
  /\ lastOp = "mount"

Init ==
  /\ AppInit
  /\ colorIn = <<0, 0, 1>>
  /\ colorOut = <<>>
  /\ loadIn = <<>>

(* ----------------------------- SelectionSet ---------------------------- *)

\* Array.prototype.includes
includes(list, name) == \E i \in 1..Len(list) : list[i] = name

\* toggle without the membership test: every click appends
toggleAppendOnly(prevSelectedStates, stateName) ==
  Append(prevSelectedStates, stateName)

\* toggle that puts a newly selected region first instead of last
togglePrepend(prevSelectedStates, stateName) ==
  IF includes(prevSelectedStates, stateName)
  THEN SelectSeq(prevSelectedStates, LAMBDA name : name # stateName)
  ELSE <<stateName>> \o prevSelectedStates

\* toggle that keeps the list in region order, so that a region added again
\* returns to its former place
toggleSorted(prevSelectedStates, stateName) ==
  IF includes(prevSelectedStates, stateName)
  THEN SelectSeq(prevSelectedStates, LAMBDA name : name # stateName)
  ELSE SelectSeq([i \in 1..NumRegions |-> i],
                 LAMBDA name : name = stateName
                               \/ includes(prevSelectedStates, name))

\* the updater passed to setSelectedStates by the click handler
toggle(prevSelectedStates, stateName) ==
  IF includes(prevSelectedStates, stateName)
  THEN SelectSeq(prevSelectedStates, LAMBDA name : name # stateName)
  ELSE Append(prevSelectedStates, stateName)

\* a click that also pushes the new selection to the embed
clickSendsFilter(stateName) ==
  /\ mapData = "loaded"
  /\ selectedStates' = toggle(selectedStates, stateName)
  /\ fault' = FALSE
  /\ lastOp' = "click"
  /\ IF embedRef = "set" /\ sentCount < MaxSent
     THEN /\ sentCount' = sentCount + 1
          /\ lastSent' = <<[columnName |-> "Store State", operator |-> "IN",
                            values |-> toggle(selectedStates, stateName)]>>
     ELSE UNCHANGED <<sentCount, lastSent>>
  /\ UNCHANGED <<mapData, stateSales, minSales, maxSales, zIndex, embedRef,
                 boundaryFetch, metricFetch, callVars>>

\* A click on a region's shape; shapes exist only once mapData is set.
click(stateName) ==
  /\ mapData = "loaded"
  /\ selectedStates' = toggle(selectedStates, stateName)
  /\ fault' = FALSE
  /\ lastOp' = "click"
  /\ UNCHANGED <<mapData, stateSales, minSales, maxSales, zIndex, embedRef,
                 sentCount, lastSent, boundaryFetch, metricFetch, callVars>>

(* ------------------------------ FilterSync ----------------------------- *)

\* the payload of HostEvent.UpdateRuntimeFilters
UpdateRuntimeFilters(values) ==
  [columnName |-> "Store State", operator |-> "IN", values |-> values]

\* showLiveboard sending the empty list that hideLiveboard sends
showLiveboardNoValues ==
  /\ Len(selectedStates) > 0
  /\ embedRef = "set" => sentCount < MaxSent
  /\ zIndex' = "99999"
  /\ IF embedRef = "null"
     THEN /\ fault' = TRUE
          /\ UNCHANGED <<sentCount, lastSent>>
     ELSE /\ fault' = FALSE
          /\ sentCount' = sentCount + 1
          /\ lastSent' = <<UpdateRuntimeFilters(<<>>)>>
  /\ lastOp' = "showLiveboard"
  /\ UNCHANGED <<selectedStates, mapData, stateSales, minSales, maxSales,
                 embedRef, boundaryFetch, metricFetch, callVars>>

\* showLiveboard on a button that is rendered whatever the selection
showLiveboardAlways ==
  /\ embedRef = "set" => sentCount < MaxSent
  /\ zIndex' = "99999"
  /\ IF embedRef = "null"
     THEN /\ fault' = TRUE
          /\ UNCHANGED <<sentCount, lastSent>>
     ELSE /\ fault' = FALSE
          /\ sentCount' = sentCount + 1
          /\ lastSent' = <<UpdateRuntimeFilters(selectedStates)>>
  /\ lastOp' = "showLiveboard"
  /\ UNCHANGED <<selectedStates, mapData, stateSales, minSales, maxSales,
                 embedRef, boundaryFetch, metricFetch, callVars>>

\* onClick of "Explore More", rendered only while the selection is non-empty
showLiveboard ==
  /\ Len(selectedStates) > 0
  /\ embedRef = "set" => sentCount < MaxSent
  /\ zIndex' = "99999"
  /\ IF embedRef = "null"
     THEN \* embedRef.current.trigger throws a TypeError
          /\ fault' = TRUE
          /\ UNCHANGED <<sentCount, lastSent>>
     ELSE /\ fault' = FALSE
          /\ sentCount' = sentCount + 1
          /\ lastSent' = <<UpdateRuntimeFilters(selectedStates)>>
  /\ lastOp' = "showLiveboard"
  /\ UNCHANGED <<selectedStates, mapData, stateSales, minSales, maxSales,
                 embedRef, boundaryFetch, metricFetch, callVars>>

\* hideLiveboard sending the selection that showLiveboard sends
hideLiveboardKeepsValues ==
  /\ embedRef = "set" => sentCount < MaxSent
  /\ zIndex' = "0"
  /\ IF embedRef = "null"
     THEN /\ fault' = TRUE
          /\ UNCHANGED <<sentCount, lastSent>>
          /\ selectedStates' = selectedStates
     ELSE /\ fault' = FALSE
          /\ sentCount' = sentCount + 1
          /\ lastSent' = <<UpdateRuntimeFilters(selectedStates)>>
          /\ selectedStates' = <<>>
  /\ lastOp' = "hideLiveboard"
  /\ UNCHANGED <<mapData, stateSales, minSales, maxSales, embedRef,
                 boundaryFetch, metricFetch, callVars>>

\* hideLiveboard without the final setSelectedStates([])
hideLiveboardKeepsSelection ==
  /\ embedRef = "set" => sentCount < MaxSent
  /\ zIndex' = "0"
  /\ IF embedRef = "null"
     THEN /\ fault' = TRUE
          /\ UNCHANGED <<sentCount, lastSent>>
     ELSE /\ fault' = FALSE
          /\ sentCount' = sentCount + 1
          /\ lastSent' = <<UpdateRuntimeFilters(<<>>)>>
  /\ lastOp' = "hideLiveboard"
  /\ UNCHANGED <<selectedStates, mapData, stateSales, minSales, maxSales,
                 embedRef, boundaryFetch, metricFetch, callVars>>

\* onClick of "Close", always rendered
hideLiveboard ==
  /\ embedRef = "set" => sentCount < MaxSent
  /\ zIndex' = "0"
  /\ IF embedRef = "null"
     THEN \* the TypeError leaves setSelectedStates([]) unreached
          /\ fault' = TRUE
          /\ UNCHANGED <<sentCount, lastSent>>
          /\ selectedStates' = selectedStates
     ELSE /\ fault' = FALSE
          /\ sentCount' = sentCount + 1
          /\ lastSent' = <<UpdateRuntimeFilters(<<>>)>>
          /\ selectedStates' = <<>>
  /\ lastOp' = "hideLiveboard"
  /\ UNCHANGED <<mapData, stateSales, minSales, maxSales, embedRef,
                 boundaryFetch, metricFetch, callVars>>

\* LiveboardEmbed stores its instance in the forwarded ref
embedAssigned ==
  /\ embedRef = "null"
  /\ embedRef' = "set"
  /\ fault' = FALSE
  /\ lastOp' = "embedAssigned"
  /\ UNCHANGED <<selectedStates, mapData, stateSales, minSales, maxSales,
                 zIndex, sentCount, lastSent, boundaryFetch, metricFetch,
                 callVars>>

(* ------------------------------ the fetches ---------------------------- *)

\* The boundary response arrives: setMapData(data); the effect that depends
\* on mapData then runs and issues the metric query.
boundaryResponse ==
  /\ boundaryFetch = "pending"
  /\ boundaryFetch' = "done"
  /\ mapData' = "loaded"
  /\ metricFetch' = "pending"
  /\ fault' = FALSE
  /\ lastOp' = "boundaryResponse"
  /\ UNCHANGED <<selectedStates, stateSales, minSales, maxSales, zIndex,
                 embedRef, sentCount, lastSent, callVars>>

\* The boundary fetch rejects: nothing handles it, mapData stays null.
boundaryFailure ==
  /\ boundaryFetch = "pending"
  /\ boundaryFetch' = "failed"
  /\ fault' = FALSE
  /\ lastOp' = "boundaryFailure"
  /\ UNCHANGED <<selectedStates, mapData, stateSales, minSales, maxSales,
                 zIndex, embedRef, sentCount, lastSent, metricFetch, callVars>>

\* salesData after the forEach: a later row overwrites an earlier one
RECURSIVE salesDataOf(_)
salesDataOf(rows) ==
  IF Len(rows) = 0 THEN EmptySales
  ELSE LET before == salesDataOf(SubSeq(rows, 1, Len(rows) - 1))
           row == rows[Len(rows)]
       IN [r \in DOMAIN before \cup {row[1]} |->
             IF r = row[1] THEN row[2] ELSE before[r]]

\* salesValues after the forEach: every row's value, in order
salesValuesOf(rows) == [i \in 1..Len(rows) |-> rows[i][2]]

\* what the .then callback stores when given rows
LoadOf(rows) ==
  [salesData |-> salesDataOf(rows),
   min |-> MathMin(salesValuesOf(rows)),
   max |-> MathMax(salesValuesOf(rows))]

\* what the .then callback stores for each response it may be given
Loads == {LoadOf(rows) : rows \in MetricRows}

\* the .then callback of searchData
metricResponse(loaded) ==
  /\ metricFetch = "pending"
  /\ metricFetch' = "done"
  /\ stateSales' = loaded.salesData
  /\ minSales' = loaded.min
  /\ maxSales' = loaded.max
  /\ fault' = FALSE
  /\ lastOp' = "metricResponse"
  /\ UNCHANGED <<selectedStates, mapData, zIndex, embedRef, sentCount,
                 lastSent, boundaryFetch, callVars>>

\* a .catch callback that stores what the .then callback stores for no rows
metricFailureResets ==
  /\ metricFetch = "pending"
  /\ metricFetch' = "failed"
  /\ stateSales' = EmptySales
  /\ minSales' = PosInf
  /\ maxSales' = NegInf
  /\ fault' = FALSE
  /\ lastOp' = "metricFailure"
  /\ UNCHANGED <<selectedStates, mapData, zIndex, embedRef, sentCount,
                 lastSent, boundaryFetch, callVars>>

\* the .catch callback of searchData: console.log only
metricFailure ==
  /\ metricFetch = "pending"
  /\ metricFetch' = "failed"
  /\ fault' = FALSE
  /\ lastOp' = "metricFailure"
  /\ UNCHANGED <<selectedStates, mapData, stateSales, minSales, maxSales,
                 zIndex, embedRef, sentCount, lastSent, boundaryFetch,
                 callVars>>

(* ------------------------------ RegionStyler --------------------------- *)

DefaultColor == "#3388ff"

SelectedColor == "#cccccc"

\* stateSales[stateName] is truthy: present and not 0
hasSalesValue(stateName) ==
  stateName \in DOMAIN stateSales /\ stateSales[stateName] # 0

\* stateStyle with the selection test before the metric test, so that the
\* metric colour overwrites the selected colour
stateStyleMetricFirst(stateName) ==
  LET fillColor ==
        IF includes(selectedStates, stateName)
        THEN SelectedColor ELSE DefaultColor
  IN [fillColor |-> IF hasSalesValue(stateName)
                    THEN interpolateColor(Num(stateSales[stateName]),
                                          minSales, maxSales)
                    ELSE fillColor,
      weight |-> 2, opacity |-> 1, color |-> "white", fillOpacity |-> "0.7"]

\* stateStyle that interpolates a missing value as 0 once a range is loaded
stateStyleNoDefault(stateName) ==
  LET fillColor ==
        IF hasSalesValue(stateName)
        THEN interpolateColor(Num(stateSales[stateName]), minSales, maxSales)
        ELSE IF DOMAIN stateSales # {}
        THEN interpolateColor(Num(0), minSales, maxSales)
        ELSE DefaultColor
  IN [fillColor |-> IF includes(selectedStates, stateName)
                    THEN SelectedColor ELSE fillColor,
      weight |-> 2, opacity |-> 1, color |-> "white", fillOpacity |-> "0.7"]

stateStyle(stateName) ==
  LET fillColor ==
        IF hasSalesValue(stateName)
        THEN interpolateColor(Num(stateSales[stateName]), minSales, maxSales)
        ELSE DefaultColor
  IN [fillColor |-> IF includes(selectedStates, stateName)
                    THEN SelectedColor ELSE fillColor,
      weight |-> 2, opacity |-> 1, color |-> "white", fillOpacity |-> "0.7"]

(* ---------------------------- specifications --------------------------- *)

Next ==
  \/ \E stateName \in Regions : click(stateName)
  \/ showLiveboard
  \/ hideLiveboard
  \/ embedAssigned
  \/ boundaryResponse
  \/ boundaryFailure
  \/ \E loaded \in Loads : metricResponse(loaded)
  \/ metricFailure

Spec == Init /\ [][Next]_vars

\* interpolateColor on its own: any three integers, then one call
InitColor ==
  /\ AppInit
  /\ colorIn \in ColorInputs \X ColorInputs \X ColorInputs
  /\ colorOut = <<>>
  /\ loadIn = <<>>

callInterpolateColor ==
  /\ Len(colorOut) = 0
  /\ colorOut' = <<interpolateChannels(Num(colorIn[1]), Num(colorIn[2]),
                                       Num(colorIn[3]))>>
  /\ UNCHANGED <<colorIn, loadIn>>
  /\ UNCHANGED appVars

NextColor == callInterpolateColor

SpecColor == InitColor /\ [][NextColor]_vars

\* The .then callback on its own: the boundary response has arrived, the
\* metric query is pending, and the response holds any rows.
InitStore ==
  /\ selectedStates = <<>>
  /\ mapData = "loaded"
  /\ stateSales = EmptySales
  /\ minSales = Num(0)
  /\ maxSales = Num(0)
  /\ zIndex = "0"
  /\ embedRef = "null"
  /\ sentCount = 0
  /\ lastSent = <<>>
  /\ boundaryFetch = "done"
  /\ metricFetch = "pending"
  /\ fault = FALSE
  /\ lastOp = "boundaryResponse"
  /\ colorIn = <<0, 0, 1>>
  /\ colorOut = <<>>
  /\ loadIn \in StoreRows

loadRows == metricResponse(LoadOf(loadIn))

NextStore == loadRows

SpecStore == InitStore /\ [][NextStore]_vars

(* ------------------------------ properties ----------------------------- *)

Range(list) == {list[i] : i \in 1..Len(list)}

Without(list, name) == SelectSeq(list, LAMBDA x : x # name)

\* C1: after any sequence of region clicks and Close actions the selection
\* list holds no region more than once.
C1_NoDuplicates ==
  \A i, j \in 1..Len(selectedStates) :
    i # j => selectedStates[i] # selectedStates[j]

\* C1 witness: a click has just run, after an earlier Close, and the
\* selection holds two regions.
C1_Witness ==
  /\ lastOp = "click"
  /\ Len(selectedStates) >= 2
  /\ lastSent = <<[columnName |-> "Store State", operator |-> "IN",
                   values |-> <<>>]>>

\* C2 as stated: for every reachable selection list S and every region r,
\* toggling r twice in a row gives back S, same elements in the same order.
C2_ToggleSelfInverse ==
  \A r \in Regions :
    toggle(toggle(selectedStates, r), r) = selectedStates

\* C2 amended: for every reachable selection list S and every region r,
\* toggling r twice in a row gives a list with the same elements in which
\* the other regions keep their order; it equals S exactly when r was absent
\* from S or was its last element, and otherwise r has moved to the end.
C2_ToggleTwice ==
  \A r \in Regions :
    LET S == selectedStates
        T == toggle(toggle(S, r), r)
    IN /\ Len(T) = Len(S)
       /\ Range(T) = Range(S)
       /\ Without(T, r) = Without(S, r)
       /\ (T = S) <=> (r \notin Range(S) \/ S[Len(S)] = r)
       /\ r \in Range(S) => T[Len(T)] = r

\* C2 witness: clicks have built a list of at least two regions, so that
\* some region stands in it before the last place.
C2_Witness ==
  /\ lastOp = "click"
  /\ Len(selectedStates) >= 2
  /\ toggle(toggle(selectedStates, selectedStates[1]), selectedStates[1])
       # selectedStates

\* C3: Close always leaves the selection empty, whatever the prior selection
\* and whatever the state of the embed reference.
C3_CloseEmpties ==
  lastOp = "hideLiveboard" =>
    \A r \in Regions : ~includes(selectedStates, r)

\* C4 as stated: each Explore action sends exactly one UpdateRuntimeFilters
\* command with column 'Store State', operator IN and the selection as
\* values, and sets the panel's z-index to 99999.
C4_ExploreSendsSelection ==
  [][lastOp' = "showLiveboard" =>
       /\ sentCount' = sentCount + 1
       /\ lastSent' = <<[columnName |-> "Store State", operator |-> "IN",
                         values |-> selectedStates]>>
       /\ zIndex' = "99999"]_vars

\* C4 amended: each Explore action sets the panel's z-index to 99999 and,
\* when the embed reference is set, sends exactly one UpdateRuntimeFilters
\* command with column 'Store State', operator IN and the selection as
\* values.
C4_ExploreSendsWhenSet ==
  [][lastOp' = "showLiveboard" =>
       /\ zIndex' = "99999"
       /\ embedRef = "set" =>
            /\ sentCount' = sentCount + 1
            /\ lastSent' = <<[columnName |-> "Store State",
                              operator |-> "IN",
                              values |-> selectedStates]>>]_vars

\* C4 witness: Explore has just run with the embed set and two regions
\* selected, and the embed's last command carries them.
C4_Witness ==
  /\ lastOp = "showLiveboard"
  /\ embedRef = "set"
  /\ Len(selectedStates) >= 2
  /\ sentCount >= 1
  /\ lastSent[1].values = selectedStates
  /\ zIndex = "99999"

\* C5 as stated: each Close action sends exactly one UpdateRuntimeFilters
\* command with column 'Store State', operator IN and no values, and sets
\* the panel's z-index to 0.
C5_CloseSendsEmpty ==
  [][lastOp' = "hideLiveboard" =>
       /\ sentCount' = sentCount + 1
       /\ lastSent' = <<[columnName |-> "Store State", operator |-> "IN",
                         values |-> <<>>]>>
       /\ zIndex' = "0"]_vars

\* C5 amended: each Close action sets the panel's z-index to 0 and, when the
\* embed reference is set, sends exactly one UpdateRuntimeFilters command
\* with column 'Store State', operator IN and no values, whatever the
\* selection.
C5_CloseSendsWhenSet ==
  [][lastOp' = "hideLiveboard" =>
       /\ zIndex' = "0"
       /\ embedRef = "set" =>
            /\ sentCount' = sentCount + 1
            /\ lastSent' = <<[columnName |-> "Store State",
                              operator |-> "IN", values |-> <<>>]>>]_vars

\* C5 witness: Close has just run with the embed set, after an Explore that
\* had raised the panel with a non-empty selection.
C5_Witness ==
  /\ lastOp = "hideLiveboard"
  /\ embedRef = "set"
  /\ sentCount >= 2
  /\ lastSent[1].values = <<>>
  /\ zIndex = "0"

\* C6: with the embed reference unset, Explore and Close throw nothing and
\* send nothing.
C6_SilentNoOp ==
  [][(embedRef = "null" /\ lastOp' \in {"showLiveboard", "hideLiveboard"}) =>
       (fault' = FALSE /\ UNCHANGED <<sentCount, lastSent>>)]_vars

\* C7: every selected region is filled with '#cccccc', whatever the metric
\* store holds for it and whatever min and max are.
C7_SelectedColor ==
  \A r \in Regions :
    includes(selectedStates, r) => stateStyle(r).fillColor = "#cccccc"

\* C7 witness: a selected region has a non-zero sales value inside a proper
\* range, so the metric test of stateStyle has picked a gradient colour.
C7_Witness ==
  \E r \in Regions :
    /\ includes(selectedStates, r)
    /\ r \in DOMAIN stateSales
    /\ stateSales[r] # 0
    /\ minSales # maxSales

\* C8: every unselected region with a value in the metric store, 0
\* included, is filled with interpolateColor(value, min, max) and not with
\* the default colour.
C8_MetricColor ==
  \A r \in Regions :
    (~includes(selectedStates, r) /\ r \in DOMAIN stateSales) =>
      /\ stateStyle(r).fillColor =
           interpolateColor(Num(stateSales[r]), minSales, maxSales)
      /\ stateStyle(r).fillColor # "#3388ff"

\* C9: every unselected region without an entry in the metric store is
\* filled with '#3388ff', before, after and without a metric response.
C9_DefaultColor ==
  \A r \in Regions :
    (~includes(selectedStates, r) /\ r \notin DOMAIN stateSales) =>
      stateStyle(r).fillColor = "#3388ff"

\* C9 witness: the metric response has loaded a value for one region and
\* none for another, unselected one.
C9_Witness ==
  /\ metricFetch = "done"
  /\ \E r, q \in Regions :
       /\ ~includes(selectedStates, r)
       /\ r \notin DOMAIN stateSales
       /\ q \in DOMAIN stateSales
       /\ stateSales[q] # 0

\* C10: for integers value, min, max with min < max the three channels of
\* interpolateColor(value, min, max) lie in 0..255, and the colours of min
\* and of max differ.
C10_ChannelsInRange ==
  (Len(colorOut) = 1 /\ colorIn[2] < colorIn[3]) =>
    /\ \A c \in {colorOut[1].red, colorOut[1].green, colorOut[1].blue} :
         c.k = "num" /\ 0 <= c.n /\ c.n <= 255
    /\ interpolateColor(Num(colorIn[2]), Num(colorIn[2]), Num(colorIn[3])) #
         interpolateColor(Num(colorIn[3]), Num(colorIn[2]), Num(colorIn[3]))

\* C11: when min == max the colour that stateStyle asks interpolateColor
\* for has three numeric channels, never NaN.
C11_DegenerateDefined ==
  (minSales = maxSales /\ minSales.k = "num") =>
    \A r \in Regions :
      hasSalesValue(r) =>
        LET c == interpolateChannels(Num(stateSales[r]), minSales, maxSales)
        IN c.red.k = "num" /\ c.green.k = "num" /\ c.blue.k = "num"

\* C12: after a metric response with no rows the range is (0,0) and no
\* region has a value.
C12_EmptyLoad ==
  (lastOp = "metricResponse" /\ DOMAIN stateSales = {}) =>
    /\ minSales = Num(0)
    /\ maxSales = Num(0)
    /\ \A r \in Regions : r \notin DOMAIN stateSales

\* a <= b on numbers that are integers or infinities
LessEq(a, b) ==
  IF a.k = "nan" \/ b.k = "nan" THEN FALSE
  ELSE IF a.k = "inf" THEN (a.n < 0 \/ (b.k = "inf" /\ b.n > 0))
  ELSE IF b.k = "inf" THEN b.n > 0
  ELSE a.n * b.d <= b.n * a.d

\* C14: in every state min <= max when the mapping is non-empty, and
\* min = max = 0 when it is empty.
C14_RangeInvariant ==
  IF DOMAIN stateSales # {}
  THEN LessEq(minSales, maxSales)
  ELSE minSales = Num(0) /\ maxSales = Num(0)

\* C13: after a load the value stored for a region is that of the last row
\* naming it, and min and max are those of the values that remain in the
\* mapping: load([(A,10),(B,30),(A,20)]) gives get(A) = 20, range (20,30).
C13_LastWriteWinsRange ==
  lastOp = "metricResponse" =>
    /\ \A i \in 1..Len(loadIn) :
         (\A j \in (i + 1)..Len(loadIn) : loadIn[j][1] # loadIn[i][1]) =>
           /\ loadIn[i][1] \in DOMAIN stateSales
           /\ stateSales[loadIn[i][1]] = loadIn[i][2]
    /\ DOMAIN stateSales # {} =>
         LET remaining == {stateSales[r] : r \in DOMAIN stateSales}
         IN /\ minSales = Num(CHOOSE m \in remaining :
                                \A v \in remaining : m <= v)
            /\ maxSales = Num(CHOOSE m \in remaining :
                                \A v \in remaining : m >= v)

\* C15: a click on an absent region appends it at the end and a click on a
\* present region removes it; either way the other regions keep their
\* relative order, so a region removed and added again stands last.
C15_RemoveOrAppend ==
  [][lastOp' = "click" =>
       \E r \in Regions :
         /\ Without(selectedStates', r) = Without(selectedStates, r)
         /\ IF r \in Range(selectedStates)
            THEN /\ r \notin Range(selectedStates')
                 /\ Len(selectedStates') = Len(selectedStates) - 1
            ELSE /\ Len(selectedStates') = Len(selectedStates) + 1
                 /\ selectedStates'[Len(selectedStates')] = r
                 /\ SubSeq(selectedStates', 1, Len(selectedStates))
                      = selectedStates]_vars

\* C15 witness: a click has left a list in which a lower-numbered region
\* stands after a higher-numbered one, as after removing and re-adding it.
C15_Witness ==
  /\ lastOp = "click"
  /\ Len(selectedStates) >= 2
  /\ selectedStates[Len(selectedStates)] < selectedStates[1]

\* C16: a failed metric fetch leaves the mapping, min and max as they were,
\* and when nothing had been loaded every unselected region keeps the
\* default fill colour.
C16_FailureAbsorbed ==
  /\ [][lastOp' = "metricFailure" =>
          /\ fault' = FALSE
          /\ UNCHANGED <<stateSales, minSales, maxSales>>]_vars
  /\ [](metricFetch = "failed" =>
          \A r \in Regions :
            ~includes(selectedStates, r) =>
              stateStyle(r).fillColor = "#3388ff")

\* C16 witness: the metric fetch has just failed while one region is
\* selected and another is not.
C16_Witness ==
  /\ lastOp = "metricFailure"
  /\ metricFetch = "failed"
  /\ Len(selectedStates) >= 1
  /\ \E r \in Regions : ~includes(selectedStates, r)

\* C17: Explore can be invoked exactly when the selection is non-empty, so
\* an Explore action only happens on a selection of at least one region.
C17_ExploreAvailability ==
  /\ (embedRef = "set" => sentCount < MaxSent) =>
       (ENABLED showLiveboard <=> Len(selectedStates) > 0)
  /\ lastOp = "showLiveboard" => Len(selectedStates) > 0

\* C17 witness: the selection has been emptied again by clicks, and Explore
\* is not available.
C17_Witness ==
  /\ lastOp = "click"
  /\ Len(selectedStates) = 0
  /\ ~ENABLED showLiveboard

\* C18: the metric query is issued only once the boundary response has
\* arrived and mapData is set; while the boundary fetch is pending or has
\* failed the query is not issued and the store stays empty.
C18_MetricGated ==
  /\ metricFetch # "idle" => (boundaryFetch = "done" /\ mapData = "loaded")
  /\ boundaryFetch # "done" =>
       /\ metricFetch = "idle"
       /\ DOMAIN stateSales = {}
       /\ minSales = Num(0)
       /\ maxSales = Num(0)

\* C18 witness: the metric response has filled the store after the boundary
\* response.
C18_Witness ==
  /\ boundaryFetch = "done"
  /\ metricFetch = "done"
  /\ DOMAIN stateSales # {}

\* the most recent command's values are the current selection
Synced == Len(lastSent) = 1 /\ lastSent[1].values = selectedStates

C20_Frame ==
  [][/\ selectedStates' # selectedStates =>
          lastOp' \in {"click", "hideLiveboard"}
     /\ lastOp' \in {"showLiveboard", "boundaryResponse", "boundaryFailure",
                     "metricResponse", "metricFailure"} =>
          selectedStates' = selectedStates
     /\ lastOp' = "click" =>
          UNCHANGED <<stateSales, minSales, maxSales, zIndex, sentCount,
                      lastSent>>]_vars

\* C20 witness: the metric response has arrived while a region was selected
\* and the embed had been sent a command, and the selection is still there.
C20_Witness ==
  /\ lastOp = "metricResponse"
  /\ Len(selectedStates) >= 1
  /\ DOMAIN stateSales # {}
  /\ sentCount >= 1

====
